---- MODULE Spec2Model ----
(***************************************************************************)
(* One run of the CrowdSec -> Cloudflare synchronisation scripts:          *)
(*   update-blocklist/cf_blocklist_update.py     (surface "list")          *)
(*   update-waf-rules/cf_ruleset_update.py       (surface "waf")           *)
(*   update-kv-store/cf_blocklist_kv_update.py   (surface "kv")            *)
(* A run is a sequential script; pc is its position.  The cscli output and *)
(* the answers of the Cloudflare API are inputs drawn when the call is     *)
(* made.  Every call to cscli or to the Cloudflare client is appended to   *)
(* calls, which plays the role of a recording fake.                        *)
(*                                                                         *)
(* Strings that the code only compares or concatenates are TLA+ strings.   *)
(* A scenario is a sequence of tokens and the comment built from it is a   *)
(* sequence of tokens too, so that Python's substring test                 *)
(* ('http:exploit' in comment) is a search through the tokens.             *)
(* The JSON document printed by cscli is [shape, decisions]: decisions is  *)
(* the concatenation, in document order, of the "decisions" arrays of the  *)
(* document's items, each decision carrying value, scope, type, scenario.  *)
(***************************************************************************)
EXTENDS Integers, Sequences, FiniteSets, TLC

VARIABLES surface, dry_run, env, pc, output, ips, limit, prioritized_ips,
          ip_list, new_expression, fetched, rule, calls, echo, exit_code

vars == <<surface, dry_run, env, pc, output, ips, limit, prioritized_ips,
          ip_list, new_expression, fetched, rule, calls, echo, exit_code>>

----------------------------------------------------------------------------
(* Bounds of the model. *)

MaxDecisions == 2
MaxEntries == 3
MaxLimit == 2

(* Program constant: prioritize_ips(ips, limit=9900). *)
DefaultLimit == 9900

----------------------------------------------------------------------------
(* Configuration (the .env file). *)

CF_LIST_NAME == "crowdsec-blocklist"
CF_RULE_ID == "rule-1"

ListRequired == {"CLOUDFLARE_ACCOUNT_ID", "CLOUDFLARE_API_TOKEN",
                 "CLOUDFLARE_LIST_ID", "CLOUDFLARE_LIST_NAME"}
WafRequired == {"CLOUDFLARE_ACCOUNT_ID", "CLOUDFLARE_API_TOKEN",
                "CLOUDFLARE_RULESET_ID", "CLOUDFLARE_RULE_ID",
                "CLOUDFLARE_ZONE_ID"}
KvRequired == {"CLOUDFLARE_ACCOUNT_ID", "CLOUDFLARE_API_TOKEN",
               "KV_NAMESPACE_ID", "KV_KEY_NAME"}

Required(s) == CASE s = "list" -> ListRequired
                 [] s = "waf" -> WafRequired
                 [] OTHER -> KvRequired

----------------------------------------------------------------------------
(* Input pools. *)

Addresses == {"9.9.9.9", "8.8.8.8", "10.0.0.1"}
Scopes == {"Ip", "Range", "Country"}
Types == {"ban", "captcha"}
RunScenarios == {<<"http:exploit">>, <<"ssh:bruteforce">>}
Scenarios == {<<>>, <<"http:exploit">>, <<"http:bruteforce">>, <<"http:scan">>,
              <<"ssh:bruteforce">>, <<"http:exploit", "http:scan">>}

DecisionPool == [value : Addresses, scope : Scopes, type : Types,
                 scenario : RunScenarios]

SeqUpTo(S, n) == UNION {[1..k -> S] : k \in 0..n}

(* What cscli gave: "fail" (nonzero exit), "garbage" (not JSON), "null" (the  *)
(* JSON null), "object" (one JSON object {"decisions": [...]}) or "array"    *)
(* (a JSON array of such objects).                                           *)
Outputs == {[shape |-> sh, decisions |-> <<>>] : sh \in {"fail", "garbage", "null"}}
           \cup [shape : {"object", "array"},
                 decisions : SeqUpTo(DecisionPool, MaxDecisions)]

ListNames == {"crowdsec-blocklist", "Crowdsec-Blocklist", "other-list"}
Rule(id) == [id |-> id, description |-> "d-" \o id, action |-> "block",
             expression |-> "(ip.src in {1.1.1.1})"]
Rulesets == {<<>>, <<Rule("rule-1")>>, <<Rule("rule-2")>>,
             <<Rule("rule-2"), Rule("rule-1")>>}

----------------------------------------------------------------------------
(* Python built-ins used by the scripts. *)

(* Code points of the characters of an address (str comparison is by code point). *)
CodePoints(a) ==
    CASE a = "9.9.9.9" -> <<57, 46, 57, 46, 57, 46, 57>>
      [] a = "8.8.8.8" -> <<56, 46, 56, 46, 56, 46, 56>>
      [] a = "10.0.0.1" -> <<49, 48, 46, 48, 46, 48, 46, 49>>
      [] a = "1.2.3.4" -> <<49, 46, 50, 46, 51, 46, 52>>

RECURSIVE LexLess(_, _)
LexLess(s, t) ==
    IF s = <<>> THEN t # <<>>
    ELSE IF t = <<>> THEN FALSE
    ELSE IF Head(s) = Head(t) THEN LexLess(Tail(s), Tail(t))
    ELSE Head(s) < Head(t)

StrLess(a, b) == LexLess(CodePoints(a), CodePoints(b))

set(s) == {s[i] : i \in DOMAIN s}

RECURSIVE sorted(_)
sorted(S) ==
    IF S = {} THEN <<>>
    ELSE LET m == CHOOSE x \in S : \A y \in S \ {x} : StrLess(x, y)
         IN <<m>> \o sorted(S \ {m})

RECURSIVE join(_, _)
join(sep, s) ==
    IF s = <<>> THEN ""
    ELSE IF Len(s) = 1 THEN s[1]
    ELSE s[1] \o sep \o join(sep, Tail(s))

(* needle in haystack, on token sequences *)
Contains(haystack, needle) == \E i \in DOMAIN haystack : haystack[i] = needle

(* seq[:n] for n >= 0 *)
Slice(s, n) == SubSeq(s, 1, IF n < Len(s) THEN n ELSE Len(s))

(* the orders in which list(set(...)) may deliver the elements of S *)
Orderings(S) == {p \in [1..Cardinality(S) -> S] : set(p) = S}

----------------------------------------------------------------------------
(* The recording fake of the outside world. *)

Call(op, items, expression, value, ok) ==
    [op |-> op, items |-> items, expression |-> expression, value |-> value,
     ok |-> ok]

MutatingOps == {"rules.lists.items.update", "rulesets.rules.edit",
                "kv.namespaces.values.update"}
ReadOps == {"rules.lists.get", "rulesets.get"}

NoRule == [id |-> "", description |-> "", action |-> "", expression |-> ""]
NotFetched == [status |-> "none", name |-> "", rules |-> <<>>]
NoEcho == [shown |-> FALSE, count |-> 0, expression |-> "", current |-> ""]

(* sys.exit(code), or the script running off its end (code 0). *)
Exit(code) == pc' = "done" /\ exit_code' = code

----------------------------------------------------------------------------
(* update-blocklist/cf_blocklist_update.py *)

(* Variant: the bruteforce bucket is taken before the exploit bucket. *)
prioritize_ips_BruteforceFirst(ipl, lim) ==
    IF Len(ipl) <= lim THEN ipl
    ELSE
      LET exploits == SelectSeq(ipl, LAMBDA ip : Contains(ip.comment, "http:exploit"))
          bruteforce == SelectSeq(ipl, LAMBDA ip : Contains(ip.comment, "http:bruteforce"))
          scans == SelectSeq(ipl, LAMBDA ip : Contains(ip.comment, "http:scan"))
          p1 == Slice(bruteforce, lim)
          r1 == lim - Len(p1)
          p2 == IF r1 > 0 THEN p1 \o Slice(exploits, r1) ELSE p1
          r2 == lim - Len(p2)
          p3 == IF r2 > 0 THEN p2 \o Slice(scans, r2) ELSE p2
      IN p3

prioritize_ips(ipl, lim) ==
    IF Len(ipl) <= lim THEN ipl
    ELSE
      LET exploits == SelectSeq(ipl, LAMBDA ip : Contains(ip.comment, "http:exploit"))
          bruteforce == SelectSeq(ipl, LAMBDA ip : Contains(ip.comment, "http:bruteforce"))
          scans == SelectSeq(ipl, LAMBDA ip : Contains(ip.comment, "http:scan"))
          p1 == Slice(exploits, lim)
          r1 == lim - Len(p1)
          p2 == IF r1 > 0 THEN p1 \o Slice(bruteforce, r1) ELSE p1
          r2 == lim - Len(p2)
          p3 == IF r2 > 0 THEN p2 \o Slice(scans, r2) ELSE p2
      IN p3

(* list surface: every parse path that raises is caught and gives []. *)
get_crowdsec_ips(out) ==
    IF out.shape = "array"
    THEN [i \in DOMAIN out.decisions |->
            [ip |-> out.decisions[i].value,
             comment |-> <<"CrowdSec CAPI: ">> \o out.decisions[i].scenario]]
    ELSE <<>>

(* Variant: the run starts at the decision fetch, without the list read. *)
ListLoadConfig_SkipsGet ==
    /\ pc = "load" /\ surface = "list"
    /\ IF env # ListRequired
       THEN Exit(1)
       ELSE pc' = "list_fetch" /\ exit_code' = exit_code
    /\ UNCHANGED <<surface, dry_run, env, output, ips, limit, prioritized_ips,
                   ip_list, new_expression, fetched, rule, calls, echo>>

ListLoadConfig ==
    /\ pc = "load" /\ surface = "list"
    /\ IF env # ListRequired
       THEN Exit(1)
       ELSE pc' = "list_get" /\ exit_code' = exit_code
    /\ UNCHANGED <<surface, dry_run, env, output, ips, limit, prioritized_ips,
                   ip_list, new_expression, fetched, rule, calls, echo>>

ListGet ==
    /\ pc = "list_get"
    /\ \E ok \in BOOLEAN, name \in ListNames :
         /\ calls' = Append(calls, Call("rules.lists.get", <<>>, "", "", ok))
         /\ IF ~ok
            THEN /\ fetched' = [status |-> "error", name |-> "", rules |-> <<>>]
                 /\ Exit(1)
            ELSE /\ fetched' = [status |-> "ok", name |-> name, rules |-> <<>>]
                 /\ IF name # CF_LIST_NAME
                    THEN Exit(1)
                    ELSE pc' = "list_fetch" /\ exit_code' = exit_code
    /\ UNCHANGED <<surface, dry_run, env, output, ips, limit, prioritized_ips,
                   ip_list, new_expression, rule, echo>>

ListFetch ==
    /\ pc = "list_fetch"
    /\ \E out \in Outputs :
         /\ output' = out
         /\ calls' = Append(calls, Call("cscli", <<>>, "", "", out.shape # "fail"))
         /\ ips' = get_crowdsec_ips(out)
         /\ IF get_crowdsec_ips(out) = <<>>
            THEN Exit(1)
            ELSE pc' = "list_prioritize" /\ exit_code' = exit_code
    /\ UNCHANGED <<surface, dry_run, env, limit, prioritized_ips, ip_list,
                   new_expression, fetched, rule, echo>>

ListPrioritize ==
    /\ pc = "list_prioritize"
    /\ prioritized_ips' = prioritize_ips(ips, limit)
    /\ pc' = "list_apply"
    /\ UNCHANGED <<surface, dry_run, env, output, ips, limit, ip_list,
                   new_expression, fetched, rule, calls, echo, exit_code>>

ListApply ==
    /\ pc = "list_apply"
    /\ IF dry_run
       THEN /\ echo' = [shown |-> TRUE, count |-> Len(prioritized_ips),
                        expression |-> "", current |-> ""]
            /\ calls' = calls
            /\ Exit(0)
       ELSE \E ok \in BOOLEAN :
            /\ calls' = Append(calls,
                   Call("rules.lists.items.update", prioritized_ips, "", "", ok))
            /\ echo' = echo
            /\ Exit(IF ok THEN 0 ELSE 1)
    /\ UNCHANGED <<surface, dry_run, env, output, ips, limit, prioritized_ips,
                   ip_list, new_expression, fetched, rule>>

----------------------------------------------------------------------------
(* update-waf-rules/cf_ruleset_update.py *)

(* Every failure path ends in sys.exit(1) (exited); otherwise the ban values, *)
(* deduplicated and sorted.  Iterating a JSON object yields its keys (str),  *)
(* and iterating null raises, so only an array is read.                      *)
(* Variant: the ban values are returned as collected, without sorted(set()). *)
get_crowdsec_banned_ips_Unsorted(out) ==
    IF out.shape = "array"
    THEN [exited |-> FALSE,
          ips |-> [i \in DOMAIN SelectSeq(out.decisions,
                                  LAMBDA d : d.type = "ban") |->
                   SelectSeq(out.decisions, LAMBDA d : d.type = "ban")[i].value]]
    ELSE [exited |-> TRUE, ips |-> <<>>]

get_crowdsec_banned_ips(out) ==
    IF out.shape = "array"
    THEN [exited |-> FALSE,
          ips |-> sorted(set([i \in DOMAIN SelectSeq(out.decisions,
                                  LAMBDA d : d.type = "ban") |->
                              SelectSeq(out.decisions,
                                  LAMBDA d : d.type = "ban")[i].value]))]
    ELSE [exited |-> TRUE, ips |-> <<>>]

format_ip_for_cloudflare(ipl) == "(ip.src in {" \o join(" ", ipl) \o "})"

(* Variant: when no rule has the declared id, the first rule is taken. *)
FirstRule_Fallback(rules) ==
    LET idx == {i \in DOMAIN rules : rules[i].id = CF_RULE_ID}
    IN IF idx = {} THEN (IF rules = <<>> THEN NoRule ELSE rules[1])
       ELSE rules[CHOOSE i \in idx : \A j \in idx : i <= j]

(* next((rule for rule in ruleset.rules if rule.id == CF_RULE_ID), None) *)
FirstRule(rules) ==
    LET idx == {i \in DOMAIN rules : rules[i].id = CF_RULE_ID}
    IN IF idx = {} THEN NoRule
       ELSE rules[CHOOSE i \in idx : \A j \in idx : i <= j]

WafLoadConfig ==
    /\ pc = "load" /\ surface = "waf"
    /\ IF env # WafRequired
       THEN Exit(1)
       ELSE pc' = "waf_fetch" /\ exit_code' = exit_code
    /\ UNCHANGED <<surface, dry_run, env, output, ips, limit, prioritized_ips,
                   ip_list, new_expression, fetched, rule, calls, echo>>

WafFetch ==
    /\ pc = "waf_fetch"
    /\ \E out \in Outputs :
         /\ output' = out
         /\ calls' = Append(calls, Call("cscli", <<>>, "", "", out.shape # "fail"))
         /\ ip_list' = get_crowdsec_banned_ips(out).ips
         /\ IF get_crowdsec_banned_ips(out).exited
            THEN Exit(1)
            ELSE pc' = "waf_format" /\ exit_code' = exit_code
    /\ UNCHANGED <<surface, dry_run, env, ips, limit, prioritized_ips,
                   new_expression, fetched, rule, echo>>

WafFormat ==
    /\ pc = "waf_format"
    /\ new_expression' = format_ip_for_cloudflare(ip_list)
    /\ pc' = "waf_get"
    /\ UNCHANGED <<surface, dry_run, env, output, ips, limit, prioritized_ips,
                   ip_list, fetched, rule, calls, echo, exit_code>>

(* fetch_current_rule, and the (unreachable) second None test of run_sync *)
WafGet ==
    /\ pc = "waf_get"
    /\ \E ok \in BOOLEAN, ruleset \in Rulesets :
         /\ calls' = Append(calls, Call("rulesets.get", <<>>, "", "", ok))
         /\ IF ~ok
            THEN /\ fetched' = [status |-> "error", name |-> "", rules |-> <<>>]
                 /\ rule' = rule
                 /\ Exit(1)
            ELSE /\ fetched' = [status |-> "ok", name |-> "", rules |-> ruleset]
                 /\ rule' = FirstRule(ruleset)
                 /\ IF FirstRule(ruleset) = NoRule
                    THEN Exit(1)
                    ELSE pc' = "waf_apply" /\ exit_code' = exit_code
    /\ UNCHANGED <<surface, dry_run, env, output, ips, limit, prioritized_ips,
                   ip_list, new_expression, echo>>

(* Variant: the edit is sent whatever the mode. *)
WafApply_IgnoresDryRun ==
    /\ pc = "waf_apply"
    /\ \E ok \in BOOLEAN :
            /\ calls' = Append(calls,
                   Call("rulesets.rules.edit", <<>>, new_expression, rule.id, ok))
            /\ echo' = echo
            /\ Exit(IF ok THEN 0 ELSE 1)
    /\ UNCHANGED <<surface, dry_run, env, output, ips, limit, prioritized_ips,
                   ip_list, new_expression, fetched, rule>>

WafApply ==
    /\ pc = "waf_apply"
    /\ IF dry_run
       THEN /\ echo' = [shown |-> TRUE, count |-> Len(ip_list),
                        expression |-> new_expression,
                        current |-> rule.expression]
            /\ calls' = calls
            /\ Exit(0)
       ELSE \E ok \in BOOLEAN :
            /\ calls' = Append(calls,
                   Call("rulesets.rules.edit", <<>>, new_expression, rule.id, ok))
            /\ echo' = echo
            /\ Exit(IF ok THEN 0 ELSE 1)
    /\ UNCHANGED <<surface, dry_run, env, output, ips, limit, prioritized_ips,
                   ip_list, new_expression, fetched, rule>>

----------------------------------------------------------------------------
(* update-kv-store/cf_blocklist_kv_update.py *)

(* The results list(set(ips)) may give; [] on every raising path. *)
kv_get_crowdsec_ips(out) ==
    IF out.shape \in {"array", "object"}
    THEN Orderings(set([i \in DOMAIN SelectSeq(out.decisions,
                            LAMBDA d : d.scope = "Ip" \/ d.scope = "Range") |->
                        SelectSeq(out.decisions,
                            LAMBDA d : d.scope = "Ip" \/ d.scope = "Range")[i].value]))
    ELSE {<<>>}

json_dumps(ipl) ==
    "[" \o join(", ", [i \in DOMAIN ipl |-> "\"" \o ipl[i] \o "\""]) \o "]"

KvLoadConfig ==
    /\ pc = "load" /\ surface = "kv"
    /\ IF env # KvRequired
       THEN Exit(1)
       ELSE pc' = "kv_fetch" /\ exit_code' = exit_code
    /\ UNCHANGED <<surface, dry_run, env, output, ips, limit, prioritized_ips,
                   ip_list, new_expression, fetched, rule, calls, echo>>

KvFetch ==
    /\ pc = "kv_fetch"
    /\ \E out \in Outputs :
         /\ output' = out
         /\ calls' = Append(calls, Call("cscli", <<>>, "", "", out.shape # "fail"))
         /\ \E l \in kv_get_crowdsec_ips(out) :
              /\ ip_list' = l
              /\ IF l = <<>>
                 THEN Exit(0)
                 ELSE pc' = "kv_update" /\ exit_code' = exit_code
    /\ UNCHANGED <<surface, dry_run, env, ips, limit, prioritized_ips,
                   new_expression, fetched, rule, echo>>

KvUpdate ==
    /\ pc = "kv_update"
    /\ \E ok \in BOOLEAN :
         /\ calls' = Append(calls,
                Call("kv.namespaces.values.update", <<>>, "", json_dumps(ip_list), ok))
         /\ Exit(0)
    /\ UNCHANGED <<surface, dry_run, env, output, ips, limit, prioritized_ips,
                   ip_list, new_expression, fetched, rule, echo>>

----------------------------------------------------------------------------
(* prioritize_ips on its own: the arguments are drawn, the call returns. *)

EntryPool == [ip : {"1.2.3.4", "9.9.9.9"},
              comment : {<<"CrowdSec CAPI: ">> \o s : s \in Scenarios}]

PrioritizeCall ==
    /\ pc = "prio_call"
    /\ prioritized_ips' = prioritize_ips(ips, limit)
    /\ pc' = "prio_return"
    /\ UNCHANGED <<surface, dry_run, env, output, ips, limit, ip_list,
                   new_expression, fetched, rule, calls, echo, exit_code>>

InitPrio ==
    /\ surface = "list"
    /\ dry_run = TRUE
    /\ env = ListRequired
    /\ pc = "prio_call"
    /\ output = [shape |-> "fail", decisions |-> <<>>]
    /\ ips \in SeqUpTo(EntryPool, MaxEntries)
    /\ limit \in 0..MaxLimit
    /\ prioritized_ips = <<>>
    /\ ip_list = <<>>
    /\ new_expression = ""
    /\ fetched = NotFetched
    /\ rule = NoRule
    /\ calls = <<>>
    /\ echo = NoEcho
    /\ exit_code = -1

NextPrio == PrioritizeCall

SpecPrio == InitPrio /\ [][NextPrio]_vars

----------------------------------------------------------------------------

Init ==
    /\ surface \in {"list", "waf", "kv"}
    /\ dry_run \in (IF surface = "kv" THEN {FALSE} ELSE BOOLEAN)
    /\ env \in SUBSET Required(surface)
    /\ pc = "load"
    /\ output = [shape |-> "fail", decisions |-> <<>>]
    /\ ips = <<>>
    /\ limit = DefaultLimit
    /\ prioritized_ips = <<>>
    /\ ip_list = <<>>
    /\ new_expression = ""
    /\ fetched = NotFetched
    /\ rule = NoRule
    /\ calls = <<>>
    /\ echo = NoEcho
    /\ exit_code = -1

Next ==
    \/ ListLoadConfig
    \/ ListGet
    \/ ListFetch
    \/ ListPrioritize
    \/ ListApply
    \/ WafLoadConfig
    \/ WafFetch
    \/ WafFormat
    \/ WafGet
    \/ WafApply
    \/ KvLoadConfig
    \/ KvFetch
    \/ KvUpdate

Spec == Init /\ [][Next]_vars

----------------------------------------------------------------------------
(* Vocabulary of the properties. *)

Ops == [i \in DOMAIN calls |-> calls[i].op]
MutatingCalls == Cardinality({i \in DOMAIN calls : calls[i].op \in MutatingOps})
IsPrefix(s, t) == Len(s) <= Len(t) /\ s = SubSeq(t, 1, Len(s))
OutputRead == \E i \in DOMAIN calls : calls[i].op = "cscli"

(* The identity read was made and did not return the declared resource. *)
DriftFailed ==
    \/ fetched.status = "error"
    \/ /\ fetched.status = "ok" /\ surface = "list"
       /\ fetched.name # CF_LIST_NAME
    \/ /\ fetched.status = "ok" /\ surface = "waf"
       /\ \A i \in DOMAIN fetched.rules : fetched.rules[i].id # CF_RULE_ID

DriftMatched ==
    /\ fetched.status = "ok"
    /\ surface = "list" => fetched.name = CF_LIST_NAME
    /\ surface = "waf" => \E i \in DOMAIN fetched.rules : fetched.rules[i].id = CF_RULE_ID

(* Addresses of the ban decisions, as delivered by the decision source. *)
BanValues ==
    LET bans == SelectSeq(output.decisions, LAMBDA d : d.type = "ban")
    IN [i \in DOMAIN bans |-> bans[i].value]

(* Number of decisions of the output the surface can use: none when the      *)
(* command failed or its output could not be read as the surface reads it.   *)
UsableCount ==
    CASE surface = "list" ->
           IF output.shape = "array" THEN Len(output.decisions) ELSE 0
      [] surface = "waf" ->
           IF output.shape = "array" THEN Len(BanValues) ELSE 0
      [] OTHER ->
           IF output.shape \in {"array", "object"}
           THEN Len(SelectSeq(output.decisions, LAMBDA d : d.scope \in {"Ip", "Range"}))
           ELSE 0

SyncSucceeded ==
    \/ echo.shown
    \/ \E i \in DOMAIN calls : calls[i].op \in MutatingOps /\ calls[i].ok

(* Expressions sent by a rule edit or shown by the dry run. *)
Expressions ==
    {calls[i].expression : i \in {j \in DOMAIN calls : calls[j].op = "rulesets.rules.edit"}}
    \cup (IF surface = "waf" /\ echo.shown THEN {echo.expression} ELSE {})

(* s without the repetitions of an element after its first occurrence *)
FirstSeen(s) ==
    LET keep == {i \in DOMAIN s : \A j \in 1..(i - 1) : s[j] # s[i]}
        F[i \in 0..Len(s)] ==
            IF i = 0 THEN <<>>
            ELSE IF i \in keep THEN Append(F[i - 1], s[i]) ELSE F[i - 1]
    IN F[Len(s)]

Occurrences(s, e) == Cardinality({i \in DOMAIN s : s[i] = e})

IsExploit(e) == Contains(e.comment, "http:exploit")
IsBruteforce(e) == ~IsExploit(e) /\ Contains(e.comment, "http:bruteforce")
IsScan(e) == ~IsExploit(e) /\ ~IsBruteforce(e) /\ Contains(e.comment, "http:scan")
IsUnclassified(e) == ~IsExploit(e) /\ ~IsBruteforce(e) /\ ~IsScan(e)

----------------------------------------------------------------------------
(* C1: once the drift check has failed (list name different from the         *)
(* declared one, case included; declared rule id absent from the ruleset;    *)
(* or the read itself failed) the run has ended with a nonzero exit code and *)
(* no mutating call has been or is ever made, in Apply and in DryRun mode.   *)
C1_DriftFailureHalts ==
    DriftFailed => /\ pc = "done"
                   /\ exit_code = 1
                   /\ MutatingCalls = 0

C1_Witness ==
    /\ surface = "list" /\ ~dry_run
    /\ fetched.status = "ok" /\ fetched.name = "Crowdsec-Blocklist"
    /\ pc = "done"

(* C2: a run in DryRun mode makes no mutating call, and once it has shown    *)
(* its echo it has ended with exit code 0.                                   *)
C2_DryRunNeverMutates ==
    dry_run => /\ MutatingCalls = 0
               /\ echo.shown => (pc = "done" /\ exit_code = 0)

C2_Witness ==
    /\ dry_run /\ surface = "waf" /\ echo.shown
    /\ echo.expression = "(ip.src in {8.8.8.8})"

(* C3: when the decision source gave zero usable entries the run stops       *)
(* before its apply step: no write call and no dry-run echo.                 *)
C3_ZeroEntriesNoWrite ==
    (OutputRead /\ UsableCount = 0) => (MutatingCalls = 0 /\ ~echo.shown)

(* C4: a finished run has exit code 0 exactly when it completed a dry run or *)
(* a successful apply; zero usable entries end with a nonzero code.          *)
C4_ExitContract ==
    pc = "done" => /\ exit_code = 0 <=> SyncSucceeded
                   /\ (OutputRead /\ UsableCount = 0) => exit_code # 0

(* C5: on the list surface the entries handed to the prioritizer, and the    *)
(* items sent by the list update, hold no address twice.                     *)
C5_UniqueAddresses ==
    surface = "list" =>
        /\ \A i, j \in DOMAIN ips : i # j => ips[i].ip # ips[j].ip
        /\ \A c \in DOMAIN calls :
             \A i, j \in DOMAIN calls[c].items :
                i # j => calls[c].items[i].ip # calls[c].items[j].ip

(* C6: with more entries than capacity, prioritize returns exactly capacity  *)
(* entries.                                                                  *)
C6_ExactlyCapacity ==
    (pc = "prio_return" /\ Len(ips) > limit) => Len(prioritized_ips) = limit

(* C7: with capacity >= the number of Exploit entries, an output holding any *)
(* Bruteforce or Scan entry holds every Exploit entry of the input.          *)
C7_ExploitsNeverExcluded ==
    ( /\ pc = "prio_return"
      /\ limit >= Len(SelectSeq(ips, IsExploit))
      /\ \E k \in DOMAIN prioritized_ips :
            IsBruteforce(prioritized_ips[k]) \/ IsScan(prioritized_ips[k]) )
    => \A i \in DOMAIN ips :
          IsExploit(ips[i]) =>
             Occurrences(prioritized_ips, ips[i]) >= Occurrences(ips, ips[i])

C7_Witness ==
    /\ pc = "prio_return"
    /\ Len(ips) > limit
    /\ Len(SelectSeq(ips, IsExploit)) = 1
    /\ IsScan(ips[1])
    /\ \E k \in DOMAIN prioritized_ips : IsBruteforce(prioritized_ips[k])
    /\ \E k \in DOMAIN prioritized_ips : IsExploit(prioritized_ips[k])

(* C8 (as claimed): the WAF expression lists the ban addresses in the order  *)
(* in which the decision source delivered them (each address at the place of *)
(* its first delivery).                                                      *)
C8_DeliveredOrder ==
    \A e \in Expressions :
       e = "(ip.src in {" \o join(" ", FirstSeen(BanValues)) \o "})"

(* C8 (amended): the WAF expression lists each distinct ban address once, in *)
(* ascending code-point order of the address strings, single-space separated.*)
C8_SortedDistinct ==
    \A e \in Expressions :
       \E s \in Orderings(set(BanValues)) :
          /\ \A i, j \in DOMAIN s : i < j => StrLess(s[i], s[j])
          /\ e = "(ip.src in {" \o join(" ", s) \o "})"

C8_Witness ==
    /\ BanValues = <<"9.9.9.9", "8.8.8.8">>
    /\ \E i \in DOMAIN calls :
          /\ calls[i].op = "rulesets.rules.edit"
          /\ calls[i].expression = "(ip.src in {8.8.8.8 9.9.9.9})"

(* C9: with more entries than capacity, prioritize returns the first         *)
(* capacity entries of Exploit ++ Bruteforce ++ Scan ++ Unclassified, each   *)
(* bucket in input order.                                                    *)
C9_BucketConcatenation ==
    (pc = "prio_return" /\ Len(ips) > limit) =>
        prioritized_ips =
            Slice(SelectSeq(ips, IsExploit) \o SelectSeq(ips, IsBruteforce)
                  \o SelectSeq(ips, IsScan) \o SelectSeq(ips, IsUnclassified),
                  limit)

(* C10 (as claimed): the identity read is made only after the decision       *)
(* source has been read and the entries selected, and the mutating call only *)
(* after the identity read returned a match.                                 *)
C10_FetchBeforeRead ==
    /\ \A i \in DOMAIN calls :
          calls[i].op \in ReadOps => \E j \in 1..(i - 1) : calls[j].op = "cscli"
    /\ MutatingCalls > 0 => DriftMatched

(* C10 (amended): the WAF run calls cscli, formats, reads the ruleset, then  *)
(* edits; the list run reads the list first, then calls cscli, prioritizes,  *)
(* then updates; on both the mutating call comes only after a matching       *)
(* identity read and after the entries were selected.                        *)
C10_StepOrder ==
    /\ surface = "waf" =>
          /\ IsPrefix(Ops, <<"cscli", "rulesets.get", "rulesets.rules.edit">>)
          /\ fetched.status # "none" => new_expression # ""
    /\ surface = "list" =>
          /\ IsPrefix(Ops, <<"rules.lists.get", "cscli", "rules.lists.items.update">>)
          /\ OutputRead => DriftMatched
    /\ \A i \in DOMAIN calls :
          calls[i].op \in {"rules.lists.items.update", "rulesets.rules.edit"} =>
             /\ DriftMatched
             /\ \E j \in 1..(i - 1) : calls[j].op = "cscli"
             /\ surface = "list" =>
                   (ips # <<>> /\ calls[i].items = prioritize_ips(ips, limit))
             /\ surface = "waf" => calls[i].expression = new_expression

C10_Witness ==
    /\ surface = "list"
    /\ \E i \in DOMAIN calls :
          calls[i].op = "rules.lists.items.update" /\ Len(calls[i].items) = 2

====
